---- MODULE Spec2Model ----
(***************************************************************************)
(* Model of the fitness-goal tracker's REST backend: the signup and login  *)
(* controllers, the User and Goal schemas, the bearer-token middleware and *)
(* the goal controller, with the document store as shared state.           *)
(*                                                                         *)
(* A JavaScript string is a sequence of one-character strings.  A request  *)
(* body is a record that has a field only when the JSON body has it.       *)
(* Each handler is cut at its awaits on the store: one action per atomic   *)
(* store operation together with the synchronous code around it.           *)
(*                                                                         *)
(* The browser client is modelled beside it: the api service, the          *)
(* AuthContext provider, the Input field and the AuthForm, the Goals page  *)
(* and calculateProgress.  A handler of the client runs to its next await  *)
(* in one action, and its continuation in another.                         *)
(***************************************************************************)
EXTENDS Integers, Sequences, FiniteSets, Bags, TLC

\* ------------------------------------------------------------------ bounds
MaxInflight == 2      \* requests being handled at the same time
MaxUsers == 2         \* signups admitted
MaxGoals == 1         \* goals created
MaxTicks == 2         \* clock advances
MaxTokens == 2        \* tokens issued while the gate is watched
MaxFrames == 4        \* calls the engine's stack admits
MaxValue == 3         \* magnitude of the finite numbers handed to the utilities
MaxListed == 4        \* goals the API lists for the Goals page

\* --------------------------------------------------------------- constants
ExpiresIn == 3600         \* seconds in the '1h' of jwt.sign
BcryptLength == 60        \* length of a bcrypt hash string
UsernameMinLength == 3
UsernameMaxLength == 30
PasswordMinLength == 8

\* ----------------------------------------------------------------- strings
RECURSIVE TrimLeft(_)
TrimLeft(s) == IF s # <<>> /\ Head(s) = " " THEN TrimLeft(Tail(s)) ELSE s

RECURSIVE TrimRight(_)
TrimRight(s) ==
    IF s # <<>> /\ s[Len(s)] = " " THEN TrimRight(SubSeq(s, 1, Len(s) - 1)) ELSE s

\* String.prototype.trim
Trim(s) == TrimRight(TrimLeft(s))

LowerChar(c) == CASE c = "A" -> "a" [] c = "B" -> "b" [] OTHER -> c

\* String.prototype.toLowerCase
ToLowerCase(s) == [i \in 1..Len(s) |-> LowerChar(s[i])]

\* String.prototype.repeat
Repeat(c, n) == [i \in 1..n |-> c]

\* /^[^@\s]+@[^@\s]+\.[^@\s]+$/ : one "@", no white space, a non-empty
\* local part, and after the "@" a "." with something on both sides of it
EmailRegex(s) ==
    \E a \in 1..Len(s), d \in 1..Len(s) :
        /\ s[a] = "@"
        /\ a >= 2
        /\ s[d] = "."
        /\ d > a + 1
        /\ d < Len(s)
        /\ \A j \in 1..Len(s) : j # a => s[j] \notin {"@", " "}

\* ------------------------------------------------------------------ bcrypt
\* A hash string embeds the algorithm and cost, the salt and the digest; the
\* digest stands for the data it was computed from (the hash is injective).
BcryptPrefix == "$2b$10$"
Salts == {"s1", "s2"}          \* what bcrypt.hash(data, 10) may draw
HookSalts == {"h1"}            \* what bcrypt.genSalt(10) may draw

IsBcrypt(s) == Len(s) >= 2 /\ s[1] = BcryptPrefix

\* bcrypt.hash(data, salt)
BcryptHashIdentity(data, salt) == data
BcryptHashWithSalt(data, salt) == <<BcryptPrefix, salt>> \o data

\* bcrypt.compare(data, hash): recompute with the salt the hash embeds
BcryptCompare(data, hash) ==
    IsBcrypt(hash) /\ BcryptHashWithSalt(data, hash[2]) = hash

\* .length of a string
StrLength(s) == IF IsBcrypt(s) THEN BcryptLength ELSE Len(s)

\* ------------------------------------------------------------ request data
ann == <<"a", "n", "n">>
annPadded == <<"a", "n", "n", " ">>
bob == <<"b", "o", "b">>
shortName == <<"a", "b">>
longName == Repeat("u", UsernameMaxLength + 1)

annMail == <<"a", "@", "x", ".", "c">>
annMailUpper == <<"A", "@", "x", ".", "c">>
bobMail == <<"b", "@", "x", ".", "c">>
badMail == <<"a", "x", ".", "c">>

password1 == <<"p", "a", "s", "s", "w", "o", "r", "d", "1">>
password2 == <<"p", "a", "s", "s", "w", "o", "r", "d", "2">>
shortPassword == <<"p", "w">>

\* What a client can submit as a password: any string, the text of a bcrypt
\* hash included
HashText(password, salt) == BcryptHashWithSalt(password, salt)

SignupBody(u, e, p) == [username |-> u, email |-> e, password |-> p]
SignupBodies ==
    {SignupBody(ann, annMail, password1),
     SignupBody(annPadded, annMailUpper, password2),
     SignupBody(bob, bobMail, password1),
     SignupBody(bob, annMail, password2),
     SignupBody(shortName, bobMail, password1),
     SignupBody(longName, bobMail, password1),
     SignupBody(ann, badMail, password1),
     SignupBody(ann, annMail, shortPassword),
     [email |-> annMail, password |-> password1]}

LoginBody(u, p) == [username |-> u, password |-> p]
LoginBodies ==
    {LoginBody(ann, password1), LoginBody(annPadded, password1),
     LoginBody(ann, password2), LoginBody(bob, password1),
     LoginBody(shortName, password1), LoginBody(ann, shortPassword),
     [username |-> ann]}
        \cup {LoginBody(u, HashText(password1, "s1")) : u \in {ann, bob}}

\* ------------------------------------------------------------- User schema
\* The setters of UserSchema: trim on username, lowercase on email.  Mongoose
\* runs them when a document is built and when a filter is cast.
UsernameSetter(v) == Trim(v)
EmailSetter(v) == ToLowerCase(v)

\* new User({ username, email, password })
NewUser(id, username, email, password) ==
    [id |-> id, username |-> UsernameSetter(username),
     email |-> EmailSetter(email), password |-> password]

\* The validators of UserSchema, run by save() before the pre-save hook
UserValidationErrors(doc) ==
    {p \in {"username", "email", "password"} :
        \/ p = "username" /\ \/ doc.username = <<>>
                             \/ StrLength(doc.username) < UsernameMinLength
                             \/ StrLength(doc.username) > UsernameMaxLength
        \/ p = "email" /\ (doc.email = <<>> \/ ~EmailRegex(doc.email))
        \/ p = "password" /\ \/ doc.password = <<>>
                             \/ StrLength(doc.password) < PasswordMinLength}

\* UserSchema.pre('save'): a new document's password counts as modified
PreSave(doc, salt) ==
    [doc EXCEPT !.password = BcryptHashWithSalt(doc.password, salt)]

\* The unique indexes on username and email
DuplicateKeyNoIndex(store, doc) == FALSE
DuplicateKey(store, doc) ==
    \E u \in store : u.username = doc.username \/ u.email = doc.email

\* user.comparePassword(password)
ComparePassword(user, password) == BcryptCompare(password, user.password)

\* User.findOne({ $or: [{ username }, { email }] })
FindByUsernameOrEmail(store, username, email) ==
    {u \in store : \/ u.username = UsernameSetter(username)
                   \/ u.email = EmailSetter(email)}

\* User.findOne({ username })
FindByUsername(store, username) ==
    {u \in store : u.username = UsernameSetter(username)}

\* --------------------------------------------------------------------- JWT
\* An Authorization header is held as the parts that split(' ') gives.  Every
\* part is a record of one shape; a signed token carries its payload and the
\* key it was signed with.
Word(t) == [text |-> t, id |-> 0, iat |-> 0, exp |-> 0, key |-> ""]

ServerKey == "server-secret"
OtherKey == "other-secret"
NoSecret == ""

\* jwt.sign({ id }, secret, { expiresIn: '1h' })
JwtSign(id, secret, clock) ==
    [text |-> "jwt", id |-> id, iat |-> clock, exp |-> clock + ExpiresIn,
     key |-> secret]

\* jwt.sign throws when the secret has no value
JwtSignThrows(secret) == secret = NoSecret

\* The error jwt.verify hands to its callback ("none": the token is good).
\* The signature is checked before the expiry.
JwtVerifyExpiredAfter(token, secret, clock) ==
    CASE token.text # "jwt" -> "JsonWebTokenError"
      [] secret = NoSecret -> "JsonWebTokenError"
      [] token.key # secret -> "JsonWebTokenError"
      [] clock > token.exp -> "TokenExpiredError"
      [] OTHER -> "none"
JwtVerify(token, secret, clock) ==
    CASE token.text # "jwt" -> "JsonWebTokenError"
      [] secret = NoSecret -> "JsonWebTokenError"
      [] token.key # secret -> "JsonWebTokenError"
      [] clock >= token.exp -> "TokenExpiredError"
      [] OTHER -> "none"

\* ------------------------------------------------------------------- state
VARIABLES
    users,        \* the users collection
    goals,        \* the goals collection
    nextUserId,   \* the next ObjectId of a User document
    nextGoalId,   \* the next ObjectId of a Goal document
    ticks,        \* how often the clock has advanced
    jwtSecret,    \* process.env.JWT_SECRET
    inflight,     \* the bag of requests waiting on the store
    last,         \* the response the latest step sent, with its request
    issued,       \* the tokens clients have received from login
    signups,      \* the signups answered 201: the user's id and the body sent
    deleted,      \* the deletes answered 204: the goal's id and the caller
    localStorage, \* the browser's localStorage: the authToken item
    auth,         \* the state of AuthProvider
    form,         \* the state of AuthForm and its submits in progress
    page,         \* the state of the Goals page and its handlers in progress
    api           \* a call of a wrapper of services/api.js: its stack

\* The variables of the server and those of the browser client
storeVars ==
    <<users, goals, nextUserId, nextGoalId, ticks, jwtSecret, inflight,
      issued, signups, deleted>>
clientVars == <<localStorage, auth, form, page, api>>
vars == <<storeVars, last, clientVars>>

\* The clock, in seconds: the instants 0, ExpiresIn - 1, ExpiresIn,
\* 2 * ExpiresIn - 1, ... in turn
Instant(k) == (k \div 2) * ExpiresIn + (k % 2) * (ExpiresIn - 1)
now == Instant(ticks)

\* The requests waiting on the store, and whether one more can be taken on
Pending == BagToSet(inflight)
Free == BagCardinality(inflight) < MaxInflight

\* A request starts to wait on the store; a waiting request is answered
Await(q) == inflight' = inflight (+) SetToBag({q})
Answer(q) == inflight' = inflight (-) SetToBag({q})

NoResponse == [op |-> "none", status |-> 0]

\* A step that sends no response
Silent == last' = NoResponse

Respond(op, status, body, req) ==
    last' = [op |-> op, status |-> status, body |-> body, req |-> req]

Has(body, f) == f \in DOMAIN body

\* ------------------------------------------------------------------ signup
\* The shape checks of signup: the first that fails names the message
SignupShapeError(body) ==
    IF ~Has(body, "username") \/ body.username = <<>>
       \/ StrLength(Trim(body.username)) < UsernameMinLength
    THEN "Username is required and must be at least 3 characters long"
    ELSE IF ~Has(body, "email") \/ body.email = <<>>
            \/ ~EmailRegex(Trim(body.email))
    THEN "Email is required and must be a valid email address"
    ELSE IF ~Has(body, "password") \/ body.password = <<>>
            \/ StrLength(Trim(body.password)) < PasswordMinLength
    THEN "Password is required and must be at least 8 characters long"
    ELSE "ok"

\* The user object of the 201 response
SignupUserResponseWhole(newUser) == newUser
SignupUserResponse(newUser) ==
    [id |-> newUser.id, username |-> newUser.username, email |-> newUser.email]

\* How many waiting requests are of the kinds in S
InflightCount(S) == BagCardinality([q \in S |-> inflight[q]])
IsSignup(q) == q.kind = "signup"
IsLogin(q) == q.kind = "login"
IsPost(q) == q.kind = "goals" /\ q.req.method = "POST"

\* signup up to its first await: the shape checks and User.findOne
Signup(body) ==
    /\ UNCHANGED clientVars
    /\ Free
    /\ LET shape == SignupShapeError(body) IN
       IF shape # "ok"
       THEN /\ Respond("signup", 400, [message |-> shape], body)
            /\ UNCHANGED inflight
       ELSE IF FindByUsernameOrEmail(users, body.username, body.email) # {}
       THEN /\ Respond("signup", 409, [message |-> "User already exists"], body)
            /\ UNCHANGED inflight
       ELSE /\ nextUserId + InflightCount({q \in Pending : IsSignup(q)}) <= MaxUsers
            /\ Await([kind |-> "signup", body |-> body])
            /\ Silent
    /\ UNCHANGED <<users, goals, nextUserId, nextGoalId, ticks, jwtSecret,
                   issued, signups, deleted>>

\* signup from bcrypt.hash to the response: the hash, new User and save()
SignupSave(q, salt, hookSalt) ==
    /\ UNCHANGED clientVars
    /\ IsSignup(q)
    /\ LET body == q.body
           hashedPassword == BcryptHashWithSalt(body.password, salt)
           newUser == NewUser(nextUserId, body.username, body.email, hashedPassword)
           saved == PreSave(newUser, hookSalt)
       IN
       IF UserValidationErrors(newUser) # {}
       THEN /\ Respond("signup", 500,
                       [message |-> "Internal Server Error",
                        error |-> "User validation failed"], body)
            /\ UNCHANGED <<users, signups>>
       ELSE IF DuplicateKey(users, saved)
       THEN /\ Respond("signup", 500,
                       [message |-> "Internal Server Error",
                        error |-> "E11000 duplicate key error"], body)
            /\ UNCHANGED <<users, signups>>
       ELSE /\ users' = users \cup {saved}
            /\ signups' = signups \cup {[id |-> saved.id, body |-> body]}
            /\ Respond("signup", 201,
                       [message |-> "User created successfully",
                        user |-> SignupUserResponse(saved)], body)
    /\ nextUserId' = nextUserId + 1
    /\ Answer(q)
    /\ UNCHANGED <<goals, nextGoalId, ticks, jwtSecret, issued, deleted>>

\* ------------------------------------------------------------------- login
LoginShapeError(body) ==
    IF ~Has(body, "username") \/ body.username = <<>>
       \/ StrLength(Trim(body.username)) < UsernameMinLength
    THEN "Username is required and must be at least 3 characters long"
    ELSE IF ~Has(body, "password") \/ body.password = <<>>
            \/ StrLength(Trim(body.password)) < PasswordMinLength
    THEN "Password is required and must be at least 8 characters long"
    ELSE "ok"

\* The bodies of the two 401 responses of login: no user of that name, and a
\* password that does not verify
LoginNoUser == [message |-> "Invalid credentials"]
LoginWrongPasswordTelling == [message |-> "Wrong password"]
LoginWrongPassword == [message |-> "Invalid credentials"]

\* The user object of the 200 response
LoginUserResponse(user) == [id |-> user.id, username |-> user.username]

\* login up to its first await: the shape checks and User.findOne.  seen is
\* the set of signups answered before the lookup.
Login(body) ==
    /\ UNCHANGED clientVars
    /\ Free
    /\ LET shape == LoginShapeError(body)
           req == [body |-> body, seen |-> signups]
       IN
       IF shape # "ok"
       THEN /\ Respond("login", 400, [message |-> shape], req)
            /\ UNCHANGED inflight
       ELSE IF FindByUsername(users, body.username) = {}
       THEN /\ Respond("login", 401, LoginNoUser, req)
            /\ UNCHANGED inflight
       ELSE /\ \E user \in FindByUsername(users, body.username) :
                   Await([kind |-> "login", req |-> req, user |-> user])
            /\ Silent
    /\ UNCHANGED <<users, goals, nextUserId, nextGoalId, ticks, jwtSecret,
                   issued, signups, deleted>>

\* Does login answer 200 for this user and password?
LoginAcceptsAlways(user, password) == TRUE
LoginAccepts(user, password) == ComparePassword(user, password)

\* login from comparePassword to the response
LoginCompare(q) ==
    /\ UNCHANGED clientVars
    /\ IsLogin(q)
    /\ LET req == q.req
           user == q.user
           token == JwtSign(user.id, jwtSecret, now)
       IN
       IF ~LoginAccepts(user, req.body.password)
       THEN /\ Respond("login", 401, LoginWrongPassword, req)
            /\ UNCHANGED issued
       ELSE IF JwtSignThrows(jwtSecret)
       THEN /\ Respond("login", 500,
                       [message |-> "Internal Server Error",
                        error |-> "secretOrPrivateKey must have a value"], req)
            /\ UNCHANGED issued
       ELSE /\ Respond("login", 200,
                       [token |-> token, user |-> LoginUserResponse(user)], req)
            /\ issued' = issued \cup {[token |-> token, userId |-> user.id]}
    /\ Answer(q)
    /\ UNCHANGED <<users, goals, nextUserId, nextGoalId, ticks, jwtSecret,
                   signups, deleted>>

\* ------------------------------------------------------------- Goal schema
GoalNameMinLength == 3
GoalNameMaxLength == 50
GoalDescriptionMaxLength == 200
GoalTypes == {"weight loss", "muscle gain", "endurance", "other"}
GoalFields ==
    {"name", "description", "type", "startDate", "endDate", "targetValue", "unit"}

\* null in a string field
Null == <<"<null>">>

runName == <<"R", "u", "n">>
liftName == <<"L", "i", "f", "t">>
twoName == <<"R", "u">>
km == <<"k", "m">>

validRun ==
    [name |-> runName, type |-> "endurance", startDate |-> 1, endDate |-> 2,
     targetValue |-> 5, unit |-> km]
validLift ==
    [name |-> liftName, description |-> <<"d">>, type |-> "muscle gain",
     startDate |-> 1, endDate |-> 3, targetValue |-> 80, unit |-> <<"k", "g">>]
CreateBodies == {validRun, [validRun EXCEPT !.type = "weight-loss"]}
UpdateBodies == {validLift, [validLift EXCEPT !.name = twoName]}

\* Payloads on either side of every constraint of GoalSchema
Without(body, f) == [k \in DOMAIN body \ {f} |-> body[k]]
PayloadVariants ==
    {validRun, validLift,
     [validRun EXCEPT !.type = "weight-loss"],
     [validRun EXCEPT !.type = "weight loss"],
     [validRun EXCEPT !.name = twoName],
     [validRun EXCEPT !.name = <<" ">> \o twoName],
     [validRun EXCEPT !.name = Repeat("n", GoalNameMaxLength)],
     [validRun EXCEPT !.name = Repeat("n", GoalNameMaxLength + 1)],
     [validLift EXCEPT !.description = Repeat("d", GoalDescriptionMaxLength)],
     [validLift EXCEPT !.description = Repeat("d", GoalDescriptionMaxLength + 1)],
     [validRun EXCEPT !.unit = <<>>]}
        \cup {Without(validLift, f) : f \in GoalFields}

\* The validators of one path of GoalSchema on a value the setters have
\* been applied to; TRUE when the value is rejected
GoalPathInvalid(body, f) ==
    CASE f = "name" ->
            \/ ~Has(body, f)
            \/ Trim(body.name) = <<>>
            \/ Len(Trim(body.name)) < GoalNameMinLength
            \/ Len(Trim(body.name)) > GoalNameMaxLength
      [] f = "description" ->
            Has(body, f) /\ Len(Trim(body.description)) > GoalDescriptionMaxLength
      [] f = "type" -> ~Has(body, f) \/ body.type \notin GoalTypes
      [] f = "unit" -> ~Has(body, f) \/ body.unit = <<>>
      [] OTHER -> ~Has(body, f)

\* newGoal.validate(): the paths that fail
GoalValidationRequiredOnly(body) ==
    {f \in GoalFields \ {"description"} : ~Has(body, f)}
GoalValidationErrors(body) == {f \in GoalFields : GoalPathInvalid(body, f)}

\* The update validators of findOneAndUpdate(..., { runValidators: true }):
\* every path of the $set is validated, an undefined value as a missing one
UpdateValidationRequiredOnly(body) ==
    {f \in GoalFields \ {"description"} : ~Has(body, f)}
UpdateValidationErrors(body) == {f \in GoalFields : GoalPathInvalid(body, f)}

\* The fields a body gives a document
GoalFieldsSwapped(body) ==
    [name |-> Trim(body.name),
     description |-> IF Has(body, "description") THEN Trim(body.description) ELSE Null,
     type |-> body.type, startDate |-> body.endDate, endDate |-> body.startDate,
     targetValue |-> body.targetValue, unit |-> body.unit]
GoalFieldsOf(body) ==
    [name |-> Trim(body.name),
     description |-> IF Has(body, "description") THEN Trim(body.description) ELSE Null,
     type |-> body.type, startDate |-> body.startDate, endDate |-> body.endDate,
     targetValue |-> body.targetValue, unit |-> body.unit]

\* new Goal({ userId, ... }) as save() stores it, timestamps included
NewGoal(id, userId, body, clock) ==
    [id |-> id, userId |-> userId, fields |-> GoalFieldsOf(body),
     progress |-> <<>>, createdAt |-> clock, updatedAt |-> clock]

\* The filter { _id: goalId, userId } of findOneAndUpdate and findOneAndDelete
GoalFilterIdOnly(g, goalId, userId) == g.id = goalId
GoalFilter(g, goalId, userId) == g.id = goalId /\ g.userId = userId

\* The filter { userId } of Goal.find
ListFilterAll(g, userId) == TRUE
ListFilter(g, userId) == g.userId = userId

NotFound == [message |-> "Goal not found"]

\* --------------------------------------------------------- authMiddleware
\* Nothing inside the try block of verifyToken throws: req.headers exists,
\* the header is a string, and jwt.verify, given a callback, reports every
\* failure through it
VerifyTokenThrows(header, secret) == FALSE

\* What verifyToken answers; status 0 stands for next(), with req.user
VerifyTokenAnyScheme(header, secret, clock) ==
    IF header = <<>> \/ header = <<Word("")>>
    THEN [status |-> 401, message |-> "No token provided"]
    ELSE IF Len(header) # 2
    THEN [status |-> 401, message |-> "Invalid token format"]
    ELSE LET err == JwtVerify(header[2], secret, clock) IN
         IF err = "TokenExpiredError"
         THEN [status |-> 401, message |-> "Token expired"]
         ELSE IF err # "none"
         THEN [status |-> 401, message |-> "Invalid token"]
         ELSE [status |-> 0, user |-> [id |-> header[2].id]]
VerifyTokenResult(header, secret, clock) ==
    IF VerifyTokenThrows(header, secret)
    THEN [status |-> 500, message |-> "Internal server error"]
    ELSE IF header = <<>> \/ header = <<Word("")>>
    THEN [status |-> 401, message |-> "No token provided"]
    ELSE IF Len(header) # 2 \/ header[1] # Word("Bearer")
    THEN [status |-> 401, message |-> "Invalid token format"]
    ELSE LET err == JwtVerify(header[2], secret, clock) IN
         IF err = "TokenExpiredError"
         THEN [status |-> 401, message |-> "Token expired"]
         ELSE IF err # "none"
         THEN [status |-> 401, message |-> "Invalid token"]
         ELSE [status |-> 0, user |-> [id |-> header[2].id]]

\* The tokens a client can present: those login returned, forged ones, junk
ForgedTokens == {JwtSign(1, OtherKey, now)}
Tokens ==
    {i.token : i \in issued} \cup ForgedTokens \cup {Word(""), Word("garbage")}

Bearer(t) == <<Word("Bearer"), t>>

Headers ==
    {<<>>, <<Word("")>>}
        \cup {<<t>> : t \in Tokens}
        \cup {<<Word(w), t>> : w \in {"Bearer", "Basic"}, t \in Tokens}
        \cup {<<Word("Bearer"), Word(""), t>> : t \in Tokens}

Methods == {"GET", "POST", "PUT", "DELETE"}
\* The ids requests name: each is absent until a goal gets it and again
\* once that goal is deleted
GoalIds == 1..MaxGoals
NoParams == 0
NoBody == [none |-> TRUE]

GoalRequest(method, goalId, body) ==
    [method |-> method, goalId |-> goalId, body |-> body]

\* The requests clients send to the /goals routes
GoalRequests ==
    {GoalRequest("GET", NoParams, NoBody)}
        \cup {GoalRequest("POST", NoParams, b) : b \in CreateBodies}
        \cup {GoalRequest("PUT", i, b) : i \in GoalIds, b \in UpdateBodies}
        \cup {GoalRequest("DELETE", i, NoBody) : i \in GoalIds}

\* A request to a /goals route reaches verifyToken
VerifyToken(req, header) ==
    /\ UNCHANGED clientVars
    /\ Free
    /\ req.method = "POST" => nextGoalId + InflightCount({q \in Pending : IsPost(q)}) <= MaxGoals
    /\ LET res == VerifyTokenResult(header, jwtSecret, now) IN
       IF res.status # 0
       THEN /\ Respond("verifyToken", res.status, [message |-> res.message],
                       [header |-> header, at |-> now])
            /\ UNCHANGED inflight
       ELSE /\ Await([kind |-> "goals", req |-> req, header |-> header,
                      user |-> res.user])
            /\ Silent
    /\ UNCHANGED <<users, goals, nextUserId, nextGoalId, ticks, jwtSecret,
                   issued, signups, deleted>>

\* ---------------------------------------------------------- goalController
Handling(q, method) == q.kind = "goals" /\ q.req.method = method

Done(q, op, status, body) ==
    /\ Respond(op, status, body,
               [goalId |-> q.req.goalId, body |-> q.req.body, user |-> q.user])
    /\ Answer(q)

GetAllGoals(q) ==
    /\ UNCHANGED clientVars
    /\ Handling(q, "GET")
    /\ LET found == {g \in goals : ListFilter(g, q.user.id)} IN
       IF found = {}
       THEN Done(q, "getAllGoals", 404, [message |-> "No goals found for this user"])
       ELSE Done(q, "getAllGoals", 200, found)
    /\ UNCHANGED <<users, goals, nextUserId, nextGoalId, ticks, jwtSecret,
                   issued, signups, deleted>>

CreateGoal(q) ==
    /\ UNCHANGED clientVars
    /\ Handling(q, "POST")
    /\ LET body == q.req.body
           errors == GoalValidationErrors(body)
       IN
       IF errors # {}
       THEN /\ Done(q, "createGoal", 400,
                    [message |-> "Invalid input data", errors |-> errors])
            /\ UNCHANGED <<goals, nextGoalId>>
       ELSE LET newGoal == NewGoal(nextGoalId, q.user.id, body, now) IN
            /\ goals' = goals \cup {newGoal}
            /\ nextGoalId' = nextGoalId + 1
            /\ Done(q, "createGoal", 201, newGoal)
    /\ UNCHANGED <<users, nextUserId, ticks, jwtSecret, issued, signups, deleted>>

\* Goal.findOneAndUpdate(filter, update, { new: true }): the collection after
\* the operation; the one document the filter matches gets the update's
\* fields and a new updatedAt, and no document is inserted
FindOneAndUpdateBody(coll, goalId, userId, body, clock) ==
    {IF GoalFilter(g, goalId, userId)
     THEN [g EXCEPT !.fields = GoalFieldsOf(body), !.updatedAt = clock,
                    !.userId = IF Has(body, "userId") THEN body.userId ELSE @,
                    !.progress = IF Has(body, "progress") THEN body.progress ELSE @,
                    !.createdAt = IF Has(body, "createdAt") THEN body.createdAt ELSE @]
     ELSE g : g \in coll}
FindOneAndUpsert(coll, goalId, userId, body, clock) ==
    IF \E g \in coll : GoalFilter(g, goalId, userId)
    THEN {IF GoalFilter(g, goalId, userId)
          THEN [g EXCEPT !.fields = GoalFieldsOf(body), !.updatedAt = clock]
          ELSE g : g \in coll}
    ELSE coll \cup {NewGoal(goalId, userId, body, clock)}
FindOneAndUpdate(coll, goalId, userId, body, clock) ==
    {IF GoalFilter(g, goalId, userId)
     THEN [g EXCEPT !.fields = GoalFieldsOf(body), !.updatedAt = clock]
     ELSE g : g \in coll}

UpdateGoal(q) ==
    /\ UNCHANGED clientVars
    /\ Handling(q, "PUT")
    /\ LET body == q.req.body
           errors == UpdateValidationErrors(body)
           after == FindOneAndUpdate(goals, q.req.goalId, q.user.id, body, now)
           updatedGoal == {g \in after : GoalFilter(g, q.req.goalId, q.user.id)}
       IN
       IF errors # {}
       THEN /\ Done(q, "updateGoal", 400,
                    [message |-> "Invalid input data", errors |-> errors])
            /\ UNCHANGED goals
       ELSE /\ goals' = after
            /\ IF updatedGoal = {}
               THEN Done(q, "updateGoal", 404, NotFound)
               ELSE \E g \in updatedGoal : Done(q, "updateGoal", 200, g)
    /\ UNCHANGED <<users, nextUserId, nextGoalId, ticks, jwtSecret, issued,
                   signups, deleted>>

\* Goal.findOneAndDelete(filter): the collection after the operation
FindOneKeeps(coll, goalId, userId) == coll
FindOneAndDelete(coll, goalId, userId) ==
    {g \in coll : ~GoalFilter(g, goalId, userId)}

DeleteGoal(q) ==
    /\ UNCHANGED clientVars
    /\ Handling(q, "DELETE")
    /\ LET deletedGoal == {g \in goals : GoalFilter(g, q.req.goalId, q.user.id)} IN
       /\ goals' = FindOneAndDelete(goals, q.req.goalId, q.user.id)
       /\ IF deletedGoal = {}
          THEN /\ Done(q, "deleteGoal", 404, NotFound)
               /\ UNCHANGED deleted
          ELSE /\ Done(q, "deleteGoal", 204, [empty |-> TRUE])
               /\ deleted' = deleted \cup {[id |-> q.req.goalId, userId |-> q.user.id]}
    /\ UNCHANGED <<users, nextUserId, nextGoalId, ticks, jwtSecret, issued,
                   signups>>

\* The store operation of a goal handler rejects (the connection is lost, the
\* server is down): the handler's catch block answers
StoreDown == "MongoNetworkError: connection closed"
HandlerOf(method) ==
    CASE method = "GET" -> "getAllGoals"
      [] method = "POST" -> "createGoal"
      [] method = "PUT" -> "updateGoal"
      [] method = "DELETE" -> "deleteGoal"

GoalStoreFault(q) ==
    /\ UNCHANGED clientVars
    /\ q.kind = "goals"
    /\ Respond(HandlerOf(q.req.method), 500,
               [message |-> "Internal Server Error", error |-> StoreDown],
               [goalId |-> q.req.goalId, body |-> q.req.body, user |-> q.user,
                fault |-> TRUE])
    /\ Answer(q)
    /\ UNCHANGED <<users, goals, nextUserId, nextGoalId, ticks, jwtSecret, issued,
                   signups, deleted>>

\* ------------------------------------------------------------------- clock
\* Requests are observed at the instants on either side of each expiry
Tick ==
    /\ UNCHANGED clientVars
    /\ ticks < MaxTicks
    /\ ticks' = ticks + 1
    /\ Silent
    /\ UNCHANGED <<users, goals, nextUserId, nextGoalId, jwtSecret, inflight,
                   issued, signups, deleted>>

\* ============================================================ browser client
\* The client keeps no null in a record field: the absent user is NoUser
NoUser == [null |-> TRUE]
theUser == <<"u", "s", "e", "r">>
thePassword == <<"p", "a", "s", "s", "w", "o", "r", "d">>
user123 == <<"u", "s", "e", "r", "-", "1", "2", "3">>

\* What a client operation gave its caller: it returned, or threw an error
Returned(op, req) == last' = [op |-> op, status |-> 0, threw |-> FALSE, req |-> req]
Threw(op, req, message) ==
    last' = [op |-> op, status |-> 0, threw |-> TRUE, req |-> req,
             message |-> message]

\* ------------------------------------------------------------- AuthContext
SignedOut == [isAuthenticated |-> FALSE, user |-> NoUser]
SignedIn(id, username) ==
    [isAuthenticated |-> TRUE, user |-> [id |-> id, username |-> username]]

\* checkAuth(): the state it sets; getItem throws when the storage is
\* not accessible, and the catch block signs the user out
CheckAuthKeepsUser(token, storageOk) ==
    IF storageOk /\ token # Null /\ token # <<>>
    THEN SignedIn(token, theUser)
    ELSE [isAuthenticated |-> FALSE, user |-> auth.user]
CheckAuthResult(token, storageOk) ==
    IF storageOk /\ token # Null /\ token # <<>>
    THEN SignedIn(token, theUser)
    ELSE SignedOut

CheckAuth(storageOk) ==
    /\ auth' = CheckAuthResult(localStorage, storageOk)
    /\ Returned("checkAuth", [storageOk |-> storageOk])
    /\ UNCHANGED <<storeVars, localStorage, form, page, api>>

\* login(username, password): the credentials are compared with the one
\* pair the provider knows; setItem throws when the storage refuses the
\* write. Every failure ends in the catch block, which signs the user out
\* and throws 'Login failed'
LoginFailed == "Login failed"
LoginThrows(username, pass, storageOk) ==
    ~(username = theUser /\ pass = thePassword /\ storageOk)
LoginSets(username, pass, storageOk) ==
    IF LoginThrows(username, pass, storageOk)
    THEN auth' = SignedOut /\ UNCHANGED localStorage
    ELSE auth' = SignedIn(user123, username) /\ localStorage' = user123

AuthLogin(username, pass, storageOk) ==
    LET req == [username |-> username, password |-> pass, storageOk |-> storageOk] IN
    /\ LoginSets(username, pass, storageOk)
    /\ IF LoginThrows(username, pass, storageOk)
       THEN Threw("login", req, LoginFailed)
       ELSE Returned("login", req)
    /\ UNCHANGED <<storeVars, form, page, api>>

\* logout(): removeItem comes first; when it throws, the catch block logs
\* the error and the state stays as it was
AuthLogout(storageOk) ==
    /\ IF storageOk
       THEN localStorage' = Null /\ auth' = SignedOut
       ELSE UNCHANGED <<localStorage, auth>>
    /\ Returned("logout", [storageOk |-> storageOk])
    /\ UNCHANGED <<storeVars, form, page, api>>

\* ------------------------------------------------------- Input and AuthForm
\* String.prototype.replace(/</g, "&lt;").replace(/>/g, "&gt;")
RECURSIVE Sanitize(_)
Sanitize(s) ==
    IF s = <<>> THEN <<>>
    ELSE (CASE Head(s) = "<" -> <<"&", "l", "t", ";">>
            [] Head(s) = ">" -> <<"&", "g", "t", ";">>
            [] OTHER -> <<Head(s)>>) \o Sanitize(Tail(s))

\* Input.handleChange(event): the value the onChange handler reads from the
\* event it is handed. sanitizedValue is computed and not used
HandleChangeDelivers(value) ==
    LET sanitizedValue == Sanitize(value) IN value

FormIdle ==
    [username |-> <<>>, password |-> <<>>, isLogin |-> TRUE, error |-> "",
     loading |-> FALSE, awaiting |-> <<>>]

\* The event loop runs the continuation of a handleSubmit that awaits login
\* before it dispatches the next event
FormReady == form.awaiting = <<>>

\* A key stroke in one of the two Inputs of AuthForm: the form's onChange
\* stores event.target.value
InputHandleChange(field, value) ==
    /\ FormReady
    /\ form' = [form EXCEPT ![field] = HandleChangeDelivers(value)]
    /\ last' = [op |-> "handleChange", status |-> 0, typed |-> value,
                delivered |-> HandleChangeDelivers(value)]
    /\ UNCHANGED <<storeVars, auth, localStorage, page, api>>

PasswordFormMinLength == 6

\* validateForm(): the error it sets, '' when the form is valid
ValidateFormNoLength(username, pass) ==
    CASE Trim(username) = <<>> -> "Username is required."
      [] Trim(pass) = <<>> -> "Password is required."
      [] OTHER -> ""
ValidateForm(username, pass) ==
    CASE Trim(username) = <<>> -> "Username is required."
      [] Trim(pass) = <<>> -> "Password is required."
      [] Len(pass) < PasswordFormMinLength ->
            "Password must be at least 6 characters long."
      [] OTHER -> ""

\* What a step of handleSubmit did: whether the form was valid, whether
\* login was called, and the values it handed to setLoading, in order
Submitted(valid, calledLogin, setLoading) ==
    last' = [op |-> "handleSubmit", status |-> 0, valid |-> valid,
             calledLogin |-> calledLogin, setLoading |-> setLoading]

\* handleSubmit(event) up to its await, or to its end when it awaits nothing
HandleSubmit(storageOk) ==
    /\ UNCHANGED <<storeVars, page, api>>
    /\ FormReady
    /\ LET invalid == ValidateForm(form.username, form.password) IN
       IF invalid # ""
       THEN /\ form' = [form EXCEPT !.error = invalid]
            /\ Submitted(FALSE, FALSE, <<>>)
            /\ UNCHANGED <<auth, localStorage>>
       ELSE IF form.isLogin
       THEN /\ LoginSets(form.username, form.password, storageOk)
            /\ form' = [form EXCEPT
                  !.loading = TRUE, !.error = "",
                  !.awaiting =
                     <<[threw |-> LoginThrows(form.username, form.password, storageOk),
                        message |-> LoginFailed]>>]
            /\ Submitted(TRUE, TRUE, <<TRUE>>)
       ELSE /\ form' = [form EXCEPT !.loading = FALSE, !.error = "", !.isLogin = TRUE]
            /\ Submitted(TRUE, FALSE, <<TRUE, FALSE>>)
            /\ UNCHANGED <<auth, localStorage>>

\* The promise of login settles: the catch and finally blocks of handleSubmit
SubmitSettles ==
    /\ ~FormReady
    /\ LET outcome == Head(form.awaiting) IN
       form' = [form EXCEPT
          !.error = IF outcome.threw THEN outcome.message ELSE @,
          !.loading = FALSE,
          !.awaiting = <<>>]
    /\ last' = [op |-> "handleSubmit finally", status |-> 0, setLoading |-> <<FALSE>>]
    /\ UNCHANGED <<storeVars, auth, localStorage, page, api>>

HandleToggleFormType ==
    /\ FormReady
    /\ form' = [form EXCEPT !.isLogin = ~form.isLogin, !.error = "",
                            !.username = <<>>, !.password = <<>>]
    /\ Returned("handleToggleFormType", [isLogin |-> form.isLogin])
    /\ UNCHANGED <<storeVars, auth, localStorage, page, api>>

\* -------------------------------------------------------------- Goals page
\* The goals the page holds are named by their ids; no goal has the id
\* NoGoal, which stands for the null of editGoalId and deleteGoalId
NoGoal == 0
NoError == "<null>"
NameRequired == "Goal name cannot be empty"
ApiError == "API Error"

\* The state of the component at its first render. effectDue: a render has
\* been committed since the fetch effect last ran; awaiting: the handlers
\* that wait for a response of the API
PageIdle ==
    [goals |-> {}, loading |-> TRUE, error |-> NoError, newGoalName |-> <<>>,
     isModalOpen |-> FALSE, editGoalId |-> NoGoal, editGoalName |-> <<>>,
     showDeleteConfirmation |-> FALSE, deleteGoalId |-> NoGoal,
     effectDue |-> TRUE, awaiting |-> EmptyBag]

\* What a render reads
Rendered(p) == [p EXCEPT !.effectDue = FALSE, !.awaiting = EmptyBag]

\* The state after a handler's updates: a value that differs from the
\* current one (a new array always does) makes React render again, and the
\* render commits a new fetchGoals, since useApi() returns a new get
SetState(p, newArray) ==
    /\ page' = [p EXCEPT !.effectDue = @ \/ newArray \/ Rendered(p) # Rendered(page)]
    /\ UNCHANGED <<storeVars, localStorage, auth, form, api>>

AwaitApi(p, k) == [p EXCEPT !.awaiting = @ (+) SetToBag({k})]
Resumed(p, k) == [p EXCEPT !.awaiting = @ (-) SetToBag({k})]
ApiFree == BagCardinality(page.awaiting) < MaxInflight

\* useEffect(() => { fetchGoals() }, [fetchGoals]), up to the await:
\* GET /goals is sent
FetchGoals ==
    /\ page.effectDue
    /\ ApiFree
    /\ SetState(AwaitApi([page EXCEPT !.effectDue = FALSE, !.loading = TRUE,
                                       !.error = NoError],
                         [kind |-> "fetchGoals"]), FALSE)
    /\ last' = [op |-> "GET /goals", status |-> 0]

\* The page shows its buttons and the modal when it is not loading
Shown == ~page.loading

\* handleCloseModal(): the values it sets
ModalClosedKeepsEdit(p) ==
    [p EXCEPT !.isModalOpen = FALSE, !.newGoalName = <<>>, !.editGoalName = <<>>,
              !.showDeleteConfirmation = FALSE, !.deleteGoalId = NoGoal]
ModalClosed(p) ==
    [p EXCEPT !.isModalOpen = FALSE, !.newGoalName = <<>>, !.editGoalId = NoGoal,
              !.editGoalName = <<>>, !.showDeleteConfirmation = FALSE,
              !.deleteGoalId = NoGoal]

\* The form the modal shows
ModalShows(p) ==
    CASE ~p.isModalOpen -> "nothing"
      [] p.showDeleteConfirmation -> "delete"
      [] p.editGoalId # NoGoal -> "edit"
      [] OTHER -> "create"

\* The buttons of the page: Add Goal, and Edit and Delete of a listed goal
HandleOpenModal ==
    /\ Shown
    /\ SetState([page EXCEPT !.isModalOpen = TRUE], FALSE)
    /\ Returned("handleOpenModal", [wasOpen |-> page.isModalOpen])

HandleOpenEditModal(goalId) ==
    /\ Shown /\ goalId \in page.goals
    /\ SetState([page EXCEPT !.editGoalId = goalId, !.editGoalName = runName,
                             !.isModalOpen = TRUE], FALSE)
    /\ Returned("handleOpenEditModal", [goalId |-> goalId])

HandleOpenDeleteModal(goalId) ==
    /\ Shown /\ goalId \in page.goals
    /\ SetState([page EXCEPT !.deleteGoalId = goalId,
                             !.showDeleteConfirmation = TRUE,
                             !.isModalOpen = TRUE], FALSE)
    /\ Returned("handleOpenDeleteModal", [goalId |-> goalId])

\* Cancel, a click on the overlay or the Escape key
HandleCloseModal ==
    /\ Shown /\ page.isModalOpen
    /\ SetState(ModalClosed(page), FALSE)
    /\ Returned("handleCloseModal", [shown |-> ModalShows(page)])

\* A key stroke in the Input of the form the modal shows
GoalNameChange(value) ==
    /\ Shown /\ ModalShows(page) \in {"create", "edit"}
    /\ SetState(IF ModalShows(page) = "create"
                THEN [page EXCEPT !.newGoalName = HandleChangeDelivers(value)]
                ELSE [page EXCEPT !.editGoalName = HandleChangeDelivers(value)],
                FALSE)
    /\ Returned("handleChange", [value |-> value])

\* handleCreateGoal, handleUpdateGoal and handleDeleteGoal up to the await;
\* each keeps what its closure holds
SubmitGoal(shows, name, k) ==
    /\ Shown /\ ModalShows(page) = shows
    /\ IF shows # "delete" /\ Trim(name) = <<>>
       THEN SetState([page EXCEPT !.error = NameRequired], FALSE)
       ELSE /\ ApiFree
            /\ SetState(AwaitApi([page EXCEPT !.loading = TRUE, !.error = NoError], k),
                        FALSE)
    /\ Returned(k.kind, [shows |-> shows])

HandleCreateGoal ==
    SubmitGoal("create", page.newGoalName, [kind |-> "handleCreateGoal"])
HandleUpdateGoal ==
    SubmitGoal("edit", page.editGoalName,
               [kind |-> "handleUpdateGoal", editGoalId |-> page.editGoalId])
HandleDeleteGoal ==
    SubmitGoal("delete", <<>>,
               [kind |-> "handleDeleteGoal", deleteGoalId |-> page.deleteGoalId,
                goals |-> page.goals])

\* The response of the API arrives and the handler that awaits it runs to
\* its end: data is what the promise resolves with, and ok is FALSE when
\* it rejects
Resumes(k, ok, data) ==
    /\ k \in BagToSet(page.awaiting)
    /\ LET p == Resumed(page, k)
           done == [p EXCEPT !.loading = FALSE]
       IN
       IF ~ok
       THEN SetState([done EXCEPT !.error = ApiError], FALSE)
       ELSE CASE k.kind = "fetchGoals" ->
                    SetState([done EXCEPT !.goals = data], TRUE)
              [] k.kind = "handleCreateGoal" ->
                    SetState(ModalClosed([done EXCEPT !.goals = @ \cup data]), TRUE)
              [] k.kind = "handleUpdateGoal" ->
                    SetState(ModalClosed([done EXCEPT
                                 !.goals = (@ \ {k.editGoalId}) \cup
                                     (IF k.editGoalId \in @ THEN data ELSE {})]), TRUE)
              [] k.kind = "handleDeleteGoal" ->
                    SetState(ModalClosed([done EXCEPT
                                 !.goals = k.goals \ {k.deleteGoalId}]), TRUE)
    /\ last' = [op |-> k.kind, status |-> IF ok THEN 200 ELSE 500, resumed |-> TRUE]

\* ------------------------------------------------------------ services/api
\* The properties get, post, put and delete of the api object once the
\* module is loaded: each was assigned the wrapper, so the api.get(url) the
\* wrapper calls is the wrapper itself
ApiMethods == {"get", "post", "put", "delete"}
ApiUrls == {"/goals", "/goals/1", "/auth/login"}
ApiProperty(method) == "wrapper"

ApiIdle == [phase |-> "idle", requests |-> 0]
RangeError == "RangeError"

\* A component calls a wrapper. frames: the wrapper's calls on the stack;
\* stringified: how often JSON.stringify has been applied to data;
\* requests: the HTTP requests handed to axios for this call
ApiCall(method, url, data) ==
    /\ api.phase \in {"idle", "settled"}
    /\ api' = [phase |-> "calling", method |-> method, url |-> url, data |-> data,
               frames |-> 1, stringified |-> 0, requests |-> 0]
    /\ Silent
    /\ UNCHANGED <<storeVars, localStorage, auth, form, page>>

\* The body of the wrapper on top of the stack: it calls api[method]. The
\* engine admits MaxFrames frames (less for post and put, whose data doubles
\* in length with each JSON.stringify) and then throws a RangeError, which
\* the catch block of the innermost wrapper throws on
ApiBody ==
    /\ api.phase = "calling"
    /\ IF ApiProperty(api.method) = "wrapper"
       THEN IF api.frames < MaxFrames
            THEN api' = [api EXCEPT
                    !.frames = @ + 1,
                    !.stringified = IF api.method \in {"post", "put"} THEN @ + 1 ELSE @]
            ELSE api' = [api EXCEPT !.phase = "throwing"]
       ELSE api' = [api EXCEPT !.phase = "requested", !.requests = @ + 1]
    /\ Silent
    /\ UNCHANGED <<storeVars, localStorage, auth, form, page>>

\* The promise a wrapper awaits settles. A rejection is thrown on by the
\* catch block, to the wrapper that called it or, from the outermost, to
\* the caller; the response to a request axios sent makes the wrapper
\* return response.data or throw the error on
ApiSettles(ok) ==
    /\ api.phase \in {"throwing", "requested"}
    /\ LET req == [url |-> api.url, data |-> api.data] IN
       IF api.frames > 1
       THEN api' = [api EXCEPT !.frames = @ - 1] /\ Silent
       ELSE /\ api' = [api EXCEPT !.frames = 0, !.phase = "settled"]
            /\ IF api.phase = "throwing" THEN Threw(api.method, req, RangeError)
               ELSE IF ok THEN Returned(api.method, req)
               ELSE Threw(api.method, req, ApiError)
    /\ UNCHANGED <<storeVars, localStorage, auth, form, page>>

\* ------------------------------------------------------------------- utils
\* JavaScript values: a finite number n / d, NaN, an infinity, and values
\* that are not of type number
Finite(n) == [type |-> "number", is |-> "finite", n |-> n, d |-> 1]
NaN == [type |-> "number", is |-> "NaN"]
Infinity(sign) == [type |-> "number", is |-> "Infinity", sign |-> sign]
Values ==
    {Finite(n) : n \in -MaxValue..MaxValue}
        \cup {NaN, Infinity(1), Infinity(-1), [type |-> "string"], [type |-> "undefined"]}

Sign(n) == IF n < 0 THEN -1 ELSE 1

\* x / y * 100 on numbers, y not zero
Percent(x, y) ==
    CASE x.is = "NaN" \/ y.is = "NaN" -> NaN
      [] x.is = "Infinity" /\ y.is = "Infinity" -> NaN
      [] x.is = "Infinity" -> Infinity(x.sign * Sign(y.n))
      [] y.is = "Infinity" -> Finite(0)
      [] OTHER -> [type |-> "number", is |-> "finite",
                   n |-> 100 * x.n * y.d * Sign(y.n), d |-> x.d * y.n * Sign(y.n)]

\* x < y on numbers that are not NaN
Less(x, y) ==
    CASE x.is = "Infinity" -> x.sign = -1 /\ ~(y.is = "Infinity" /\ y.sign = -1)
      [] y.is = "Infinity" -> y.sign = 1
      [] OTHER -> x.n * y.d < y.n * x.d

\* Math.max and Math.min: NaN when an argument is NaN
MathMax(x, y) == IF x.is = "NaN" \/ y.is = "NaN" THEN NaN ELSE IF Less(x, y) THEN y ELSE x
MathMin(x, y) == IF x.is = "NaN" \/ y.is = "NaN" THEN NaN ELSE IF Less(x, y) THEN x ELSE y

CalculateProgress(current, target) ==
    IF current.type # "number" \/ target.type # "number" THEN Finite(0)
    ELSE IF target = Finite(0) THEN Finite(0)
    ELSE MathMin(MathMax(Percent(current, target), Finite(0)), Finite(100))

\* A component calls calculateProgress
Calculate(current, target) ==
    /\ last' = [op |-> "calculateProgress", status |-> 0,
                req |-> [current |-> current, target |-> target],
                body |-> CalculateProgress(current, target)]
    /\ UNCHANGED <<storeVars, clientVars>>

\* The client before a component is mounted, with nothing in localStorage
ClientIdle ==
    /\ localStorage = Null
    /\ auth = SignedOut
    /\ form = FormIdle
    /\ page = PageIdle
    /\ api = ApiIdle

\* ----------------------------------------------------------- specifications
InitEmpty ==
    /\ ClientIdle
    /\ users = {}
    /\ goals = {}
    /\ nextUserId = 1
    /\ nextGoalId = 1
    /\ ticks = 0
    /\ inflight = EmptyBag
    /\ last = NoResponse
    /\ issued = {}
    /\ signups = {}
    /\ deleted = {}

\* The server after start-up with the signing secret configured
Init == InitEmpty /\ jwtSecret = ServerKey

\* Signup and login
NextAuth ==
    \/ \E body \in SignupBodies : Signup(body)
    \/ \E q \in Pending, salt \in Salts, hookSalt \in HookSalts :
          SignupSave(q, salt, hookSalt)
    \/ \E body \in LoginBodies : Login(body)
    \/ \E q \in Pending : LoginCompare(q)

Spec == Init /\ [][NextAuth]_vars

\* A store holding two users, as two signups leave it
SeedUser(id, username, email) ==
    PreSave(NewUser(id, username, email, BcryptHashWithSalt(password1, "s1")), "h1")
SeedUsers == {SeedUser(1, ann, annMail), SeedUser(2, bob, bobMail)}
SeedSignups ==
    {[id |-> 1, body |-> SignupBody(ann, annMail, password1)],
     [id |-> 2, body |-> SignupBody(bob, bobMail, password1)]}
SeedTokens ==
    {[token |-> JwtSign(id, ServerKey, 0), userId |-> id] : id \in {1, 2}}

InitSeeded ==
    /\ ClientIdle
    /\ users = SeedUsers
    /\ signups = SeedSignups
    /\ deleted = {}
    /\ nextUserId = 3
    /\ goals = {}
    /\ nextGoalId = 1
    /\ ticks = 0
    /\ inflight = EmptyBag
    /\ last = NoResponse

\* The token gate: the store holds two users and a goal of the first; logins
\* issue tokens, the clock runs, requests of every header shape reach the
\* /goals routes
SeedGoal == NewGoal(1, 1, validRun, 0)

InitGateStore ==
    /\ ClientIdle
    /\ users = SeedUsers
    /\ signups = SeedSignups
    /\ deleted = {}
    /\ nextUserId = 3
    /\ goals = {SeedGoal}
    /\ nextGoalId = 2
    /\ ticks = 0
    /\ inflight = EmptyBag
    /\ last = NoResponse
    /\ issued = {}

InitGate == InitGateStore /\ jwtSecret = ServerKey
InitGateAnyEnv == InitGateStore /\ jwtSecret \in {ServerKey, NoSecret}

GateLoginBodies ==
    {LoginBody(ann, HashText(password1, "s1")), LoginBody(bob, HashText(password1, "s1")),
     LoginBody(ann, password1)}
GateRequests ==
    {GoalRequest("GET", NoParams, NoBody), GoalRequest("DELETE", 1, NoBody)}

TokenBudget == Cardinality(issued) + InflightCount({q \in Pending : IsLogin(q)}) < MaxTokens

\* The gate is request-scoped: one request at a time is watched
OneAtATime == inflight = EmptyBag

NextGate ==
    \/ \E body \in GateLoginBodies : OneAtATime /\ TokenBudget /\ Login(body)
    \/ \E q \in Pending : LoginCompare(q)
    \/ \E req \in GateRequests, header \in Headers :
          OneAtATime /\ VerifyToken(req, header)
    \/ \E q \in Pending : GetAllGoals(q)
    \/ \E q \in Pending : DeleteGoal(q)
    \/ Tick

SpecGate == InitGate /\ [][NextGate]_vars
SpecGateAnyEnv == InitGateAnyEnv /\ [][NextGate]_vars

\* The goal routes: both users hold a token
InitGoals == InitSeeded /\ issued = SeedTokens /\ jwtSecret = ServerKey

GoalHeaders == {Bearer(i.token) : i \in issued}

\* The routes are watched while the tokens are good: past their expiry the
\* gate turns every request away
BeforeExpiry == \A i \in issued : Instant(ticks + 1) < i.token.exp

NextGoals ==
    \/ \E req \in GoalRequests, header \in GoalHeaders : VerifyToken(req, header)
    \/ \E q \in Pending : GetAllGoals(q)
    \/ \E q \in Pending : CreateGoal(q)
    \/ \E q \in Pending : UpdateGoal(q)
    \/ \E q \in Pending : DeleteGoal(q)
    \/ BeforeExpiry /\ Tick

SpecGoals == InitGoals /\ [][NextGoals]_vars

\* The goal routes asked one request at a time with payloads on either side
\* of every constraint
ValidationRequests ==
    {GoalRequest("POST", NoParams, b) : b \in PayloadVariants}
        \cup {GoalRequest("PUT", i, b) : i \in GoalIds, b \in PayloadVariants}

NextValidation ==
    \/ \E req \in ValidationRequests, header \in GoalHeaders :
          OneAtATime /\ VerifyToken(req, header)
    \/ \E q \in Pending : CreateGoal(q)
    \/ \E q \in Pending : UpdateGoal(q)

SpecValidation == InitGoals /\ [][NextValidation]_vars

\* The goal routes over a store that may fail: goals are listed while they
\* are created and deleted
ListRequests ==
    {GoalRequest("GET", NoParams, NoBody), GoalRequest("POST", NoParams, validRun)}
        \cup {GoalRequest("DELETE", i, NoBody) : i \in GoalIds}

NextGoalsFaulty ==
    \/ \E req \in ListRequests, header \in GoalHeaders : VerifyToken(req, header)
    \/ \E q \in Pending : GetAllGoals(q)
    \/ \E q \in Pending : CreateGoal(q)
    \/ \E q \in Pending : DeleteGoal(q)
    \/ \E q \in Pending : GoalStoreFault(q)
    \/ BeforeExpiry /\ Tick

SpecGoalsFaulty == InitGoals /\ [][NextGoalsFaulty]_vars

\* Request bodies that carry, besides the goal's fields, the fields a client
\* does not own: another user's id, a document id, progress entries and a
\* creation timestamp
ForeignFields ==
    [userId |-> 2, id |-> 0, progress |-> <<[date |-> 1, value |-> 2]>>,
     createdAt |-> 9]
With(body, extra) ==
    [k \in DOMAIN body \cup DOMAIN extra |->
        IF k \in DOMAIN extra THEN extra[k] ELSE body[k]]

FrameRequests ==
    {GoalRequest("GET", NoParams, NoBody),
     GoalRequest("POST", NoParams, With(validRun, ForeignFields))}
        \cup {GoalRequest("PUT", i, With(b, ForeignFields)) :
                 i \in GoalIds, b \in UpdateBodies}
        \cup {GoalRequest("DELETE", i, NoBody) : i \in GoalIds}

\* The first user, the owner of every goal created here, sends them
FrameHeaders == {Bearer(i.token) : i \in {j \in issued : j.userId = 1}}

NextFrame ==
    \/ \E req \in FrameRequests, header \in FrameHeaders : VerifyToken(req, header)
    \/ \E q \in Pending : GetAllGoals(q)
    \/ \E q \in Pending : CreateGoal(q)
    \/ \E q \in Pending : UpdateGoal(q)
    \/ \E q \in Pending : DeleteGoal(q)
    \/ BeforeExpiry /\ Tick

SpecFrame == InitGoals /\ [][NextFrame]_vars

\* The clients keep sending every request of FrameRequests and the server
\* keeps answering
SpecFrameFair ==
    /\ SpecFrame
    /\ WF_vars(NextFrame)
    /\ \A req \in FrameRequests :
          SF_vars(\E header \in FrameHeaders : VerifyToken(req, header))

\* ------------------------------------------------- client specifications
\* The wrappers of services/api.js, called one call at a time
ApiData(method) == IF method \in {"post", "put"} THEN {validRun, validLift} ELSE {NoBody}

NextApi ==
    \/ \E method \in ApiMethods, url \in ApiUrls :
          \E data \in ApiData(method) : ApiCall(method, url, data)
    \/ ApiBody
    \/ \E ok \in BOOLEAN : ApiSettles(ok)

SpecApi == Init /\ [][NextApi]_vars

\* The texts typed into the username and the password Input
FormUsernames == {<<>>, <<" ">>, theUser, ann, <<"<", "b", ">">>}
FormPasswords ==
    {<<>>, thePassword, <<"p", "a", "s", "s">>, <<"s", "e", "c", "r", "e", "t">>,
     <<" ", " ", " ", " ", " ", " ">>}

\* AuthProvider: the operations of its context value, called by components
NextAuthProvider ==
    \/ \E storageOk \in BOOLEAN : CheckAuth(storageOk)
    \/ \E username \in FormUsernames, pass \in FormPasswords, storageOk \in BOOLEAN :
          AuthLogin(username, pass, storageOk)
    \/ \E storageOk \in BOOLEAN : AuthLogout(storageOk)

SpecAuthProvider == Init /\ [][NextAuthProvider]_vars

\* AuthForm inside an AuthProvider: the user types, submits and toggles
NextAuthForm ==
    \/ \E value \in FormUsernames : InputHandleChange("username", value)
    \/ \E value \in FormPasswords : InputHandleChange("password", value)
    \/ \E storageOk \in BOOLEAN : HandleSubmit(storageOk)
    \/ SubmitSettles
    \/ HandleToggleFormType

SpecAuthForm == Init /\ [][NextAuthForm]_vars

\* The event loop runs the continuation of every settled promise
SpecAuthFormFair == SpecAuthForm /\ WF_vars(SubmitSettles)

\* The utilities, called with values of every kind
NextUtils == \E current \in Values, target \in Values : Calculate(current, target)

SpecUtils == Init /\ [][NextUtils]_vars

\* The ids of the goals the Goals page can be handed
ListedIds == 1..MaxListed

\* What the API answers a handler of the Goals page with, ids being the
\* goals it can hold: the goals, the created goal, the updated goal, nothing
ResponseData(k, ids) ==
    CASE k.kind = "fetchGoals" -> SUBSET ids
      [] k.kind = "handleCreateGoal" -> {{i} : i \in ids}
      [] k.kind = "handleUpdateGoal" -> {{k.editGoalId}}
      [] OTHER -> {{}}

\* The Goals page after it mounts, with no user action
NextGoalsMount ==
    \/ FetchGoals
    \/ \E k \in BagToSet(page.awaiting), ok \in BOOLEAN :
          \E data \in ResponseData(k, ListedIds) : Resumes(k, ok, data)

SpecGoalsMount == Init /\ [][NextGoalsMount]_vars

\* React runs the effects of a committed render, and every request sent is
\* answered or fails
SpecGoalsMountFair ==
    /\ SpecGoalsMount
    /\ WF_vars(FetchGoals)
    /\ WF_vars(\E k \in BagToSet(page.awaiting), ok \in BOOLEAN :
                  \E data \in ResponseData(k, ListedIds) : Resumes(k, ok, data))

\* The names typed into the form the modal shows
GoalNames == {<<>>, runName}

\* The Goals page with its user
NextGoalsPage ==
    \/ FetchGoals
    \/ HandleOpenModal
    \/ \E goalId \in GoalIds : HandleOpenEditModal(goalId)
    \/ \E goalId \in GoalIds : HandleOpenDeleteModal(goalId)
    \/ HandleCloseModal
    \/ \E value \in GoalNames : GoalNameChange(value)
    \/ HandleCreateGoal
    \/ HandleUpdateGoal
    \/ HandleDeleteGoal
    \/ \E k \in BagToSet(page.awaiting), ok \in BOOLEAN :
          \E data \in ResponseData(k, GoalIds) : Resumes(k, ok, data)

SpecGoalsPage == Init /\ [][NextGoalsPage]_vars

\* ------------------------------------------------------------------ claims
IsGoalOp(q) == q.kind = "goals"

\* The handler of the waiting request q answers in this step
Completes(q) == IsGoalOp(q) /\ inflight' = inflight (-) SetToBag({q})

\* The gate rejects a request in this step
GateRejects == last'.op = "verifyToken"

\* The gate lets the request through in this step, and q waits from now on
GatePasses(q) == IsGoalOp(q) /\ inflight' = inflight (+) SetToBag({q})

OwnedBy(goalId, userId) == {g \in goals : g.id = goalId /\ g.userId = userId}
OwnedByOther(goalId, userId) == {g \in goals : g.id = goalId /\ g.userId # userId}

\* What PUT and DELETE answer for an id no goal has
AbsentResponse(req) ==
    IF req.method = "PUT" /\ UpdateValidationErrors(req.body) # {}
    THEN [status |-> 400,
          body |-> [message |-> "Invalid input data",
                    errors |-> UpdateValidationErrors(req.body)]]
    ELSE [status |-> 404, body |-> NotFound]

C2_SignupThenLogin ==
    last.op = "login" =>
        \A s \in last.req.seen :
            (/\ s.body.username = last.req.body.username
             /\ Has(last.req.body, "password")
             /\ s.body.password = last.req.body.password)
                => /\ last.status = 200
                   /\ last.body.token.id = s.id

\* C3: a login that passes the shape checks answers 200 with a token when a
\* stored user has that username and its hash verifies against the password,
\* and 401 in every other case.
C3_LoginIff ==
    (last.op = "login" /\ LoginShapeError(last.req.body) = "ok") =>
        LET body == last.req.body
            verified == \E u \in users :
                            /\ u.username = Trim(body.username)
                            /\ BcryptCompare(body.password, u.password)
        IN
        /\ last.status \in {200, 401}
        /\ last.status = 200 <=> verified
        /\ last.status = 200 => last.body.token.text = "jwt"

C3_Witness == last.op = "login" /\ last.status = 200

\* A token this server signed
Genuine(t) == t.text = "jwt" /\ jwtSecret # NoSecret /\ t.key = jwtSecret

\* What the gate owes a header at a given time: the message of its 401, or
\* "ok" when the request is to continue
HeaderClass(header, clock) ==
    IF header = <<>> \/ header = <<Word("")>>
    THEN "No token provided"
    ELSE IF ~(Len(header) = 2 /\ header[1].text = "Bearer")
    THEN "Invalid token format"
    ELSE IF ~Genuine(header[2])
    THEN "Invalid token"
    ELSE IF clock >= header[2].iat + ExpiresIn
    THEN "Token expired"
    ELSE "ok"

\* C4: a request to a /goals route with no Authorization header, a header
\* not of the form 'Bearer <token>', an expired token or an otherwise invalid
\* token is answered 401 with the message of its case, reaches no goal
\* handler and leaves the goal store as it was.
C4_GateRejects ==
    [][/\ \A q \in BagToSet(inflight') :
             GatePasses(q) => HeaderClass(q.header, now) = "ok"
       /\ GateRejects =>
             /\ HeaderClass(last'.req.header, now) # "ok"
             /\ last'.status = 401
             /\ last'.body = [message |-> HeaderClass(last'.req.header, now)]
             /\ goals' = goals
             /\ inflight' = inflight]_vars

\* A token that would pass as a Bearer token was sent under another scheme
C4_Witness ==
    /\ last.op = "verifyToken"
    /\ last.body.message = "Invalid token format"
    /\ Len(last.req.header) = 2
    /\ HeaderClass(Bearer(last.req.header[2]), last.req.at) = "ok"

\* C5: a token login issued for user U, presented before issued-at + 1 hour,
\* binds U's id to the request and lets it continue; presented at or after
\* issued-at + 1 hour it is rejected as expired.
C5_TokenLifetime ==
    [][\A i \in issued :
          /\ \A q \in BagToSet(inflight') :
                (GatePasses(q) /\ q.header = Bearer(i.token))
                   => /\ q.user = [id |-> i.userId]
                      /\ now < i.token.iat + ExpiresIn
          /\ (GateRejects /\ last'.req.header = Bearer(i.token))
                => /\ now >= i.token.iat + ExpiresIn
                   /\ last'.status = 401
                   /\ last'.body = [message |-> "Token expired"]]_vars

\* An issued token was presented at the very second it expires
C5_Witness ==
    /\ last.op = "verifyToken"
    /\ last.body.message = "Token expired"
    /\ \E i \in issued :
          /\ last.req.header = Bearer(i.token)
          /\ last.req.at = i.token.iat + ExpiresIn

\* C6 as stated: with no signing secret configured, the gate answers a
\* request that carries a well-formed bearer token with 500, not 401.
C6_InternalFailureIs500 ==
    (/\ last.op = "verifyToken"
     /\ jwtSecret = NoSecret
     /\ Len(last.req.header) = 2
     /\ last.req.header[1] = Word("Bearer")
     /\ last.req.header[2].text = "jwt")
        => last.status = 500

\* C7: no two persisted users share a username, and no two share an email.
C7_UniqueUsers ==
    \A u1 \in users, u2 \in users :
        u1 # u2 => u1.username # u2.username /\ u1.email # u2.email

\* Of two concurrent signups the later save was turned away by the index
C7_Witness ==
    /\ last.op = "signup"
    /\ last.status = 500
    /\ last.body.error = "E11000 duplicate key error"
    /\ users # {}

\* C8 as stated: a signup whose username or email a persisted user already
\* holds is answered 409, also when two such signups run concurrently.
C8_ConflictIs409 ==
    (last.op = "signup" /\ SignupShapeError(last.req) = "ok") =>
        LET holders ==
                {u \in users :
                    /\ \/ u.username = Trim(last.req.username)
                       \/ u.email = ToLowerCase(last.req.email)
                    /\ ~(last.status = 201 /\ u.id = last.body.user.id)}
        IN holders # {} => last.status = 409

\* C9: no response of signup or login carries the password or its hash; the
\* user object of signup has exactly id, username and email, that of login
\* exactly id and username.
C9_NoPasswordInResponse ==
    last.op \in {"signup", "login"} =>
        LET body == last.body
            sent == IF last.op = "signup" THEN last.req ELSE last.req.body
            secrets == {u.password : u \in users}
                          \cup (IF Has(sent, "password") THEN {sent.password} ELSE {})
        IN
        /\ DOMAIN body \subseteq {"message", "error", "user", "token"}
        /\ (last.op = "signup" /\ last.status = 201)
              => DOMAIN body.user = {"id", "username", "email"}
        /\ (last.op = "login" /\ last.status = 200)
              => /\ DOMAIN body.user = {"id", "username"}
                 /\ DOMAIN body = {"token", "user"}
        /\ Has(body, "user")
              => \A f \in DOMAIN body.user \ {"id"} : body.user[f] \notin secrets

C9_Witness == last.op = "signup" /\ last.status = 201

\* C10: the password stored for a user differs from the plaintext password
\* that was submitted at signup.
C10_NoPlaintext ==
    \A u \in users :
        \E s \in signups : s.id = u.id /\ u.password # s.body.password

C10_Witness ==
    \E u \in users, s \in signups :
        s.id = u.id /\ Len(s.body.password) >= PasswordMinLength

\* C11: for every goal id at most one DELETE is answered 204: a DELETE of an
\* id is answered 204 only if none was before, every DELETE of an id after a
\* 204 for it is answered 404, and so of two deletes of a goal by its owner
\* that run at once the first to reach the store gets 204 and the other 404.
C11_DeleteOnce ==
    [][\A q \in Pending :
          (Completes(q) /\ q.req.method = "DELETE") =>
             LET before == {d \in deleted : d.id = q.req.goalId} IN
             /\ last'.status \in {204, 404}
             /\ last'.status = 204 => before = {}
             /\ before # {} => last'.status = 404 /\ last'.body = NotFound
             /\ (before = {} /\ OwnedBy(q.req.goalId, q.user.id) # {})
                   => last'.status = 204]_vars

\* The owner's DELETE was answered 204 while another DELETE of the same goal
\* by the owner waits
C11_Witness ==
    /\ last.op = "deleteGoal"
    /\ last.status = 204
    /\ \E q \in Pending :
          /\ q.req.method = "DELETE"
          /\ q.req.goalId = last.req.goalId
          /\ q.user = last.req.user

\* C12: once a DELETE of a goal has been answered 204 no goal with that id is
\* in the store in any later state, however PUTs of the id interleave, and
\* every PUT of the id whose findOneAndUpdate reaches the store after the
\* delete (its payload passes the update validators) is answered 404 and
\* leaves the store as it was.
C12_NoResurrection ==
    [][/\ \A d \in deleted' : \A g \in goals' : g.id # d.id
       /\ \A q \in Pending :
             (/\ Completes(q)
              /\ q.req.method = "PUT"
              /\ UpdateValidationErrors(q.req.body) = {}
              /\ \E d \in deleted : d.id = q.req.goalId)
                => /\ last'.status = 404
                   /\ last'.body = NotFound
                   /\ goals' = goals]_vars

\* The owner's PUT of a goal with a valid payload was answered 404 after the
\* owner's DELETE of it was answered 204
C12_Witness ==
    /\ last.op = "updateGoal"
    /\ last.status = 404
    /\ UpdateValidationErrors(last.req.body) = {}
    /\ \E d \in deleted : d.id = last.req.goalId /\ d.userId = last.req.user.id

\* A stored goal has the field values of a payload, strings trimmed as the
\* schema trims them
SameFieldValues(g, payload) ==
    \A f \in GoalFields :
        Has(payload, f) =>
            g.fields[f] = (IF f \in {"name", "description"}
                           THEN Trim(payload[f]) ELSE payload[f])

\* C13: a POST answered 201 for user A has stored the goal it returns, with
\* the payload's field values, an id the server assigned and both timestamps
\* set to the time of creation; a GET by A in any state where that goal is
\* still in the store, the state right after the 201 first of all, is
\* answered 200 with a list that includes the goal as stored.
C13_CreateThenList ==
    [][\A q \in Pending : Completes(q) =>
          /\ (q.req.method = "POST" /\ last'.status = 201) =>
                LET g == last'.body IN
                /\ g \in goals' /\ g \notin goals
                /\ g.userId = q.user.id
                /\ SameFieldValues(g, q.req.body)
                /\ g.id = nextGoalId /\ \A h \in goals : h.id # g.id
                /\ g.createdAt = now /\ g.updatedAt = now
          /\ q.req.method = "GET" =>
                \A g \in goals :
                    g.userId = q.user.id => last'.status = 200 /\ g \in last'.body]_vars

\* A GET lists a goal that is as its POST created it
C13_Witness ==
    /\ last.op = "getAllGoals"
    /\ last.status = 200
    /\ \E g \in last.body :
          /\ g.userId = last.req.user.id
          /\ g.updatedAt = g.createdAt
          /\ SameFieldValues(g, validRun)

\* C14: a GET by an authenticated user whose store operation succeeds is
\* answered 200 with exactly the set of goals the user owns when that set is
\* not empty, and 404 'No goals found for this user' when it is empty; the
\* handler's error answer, given exactly when the store operation fails, is a
\* 500, so the no-goals outcome is told apart from an error.
C14_ListExactly ==
    [][\A q \in Pending :
          (Completes(q) /\ q.req.method = "GET") =>
             LET owned == {g \in goals : g.userId = q.user.id} IN
             /\ goals' = goals
             /\ IF Has(last'.req, "fault")
                THEN /\ last'.status = 500
                     /\ last'.body.message = "Internal Server Error"
                ELSE IF owned # {}
                THEN last'.status = 200 /\ last'.body = owned
                ELSE /\ last'.status = 404
                     /\ last'.body = [message |-> "No goals found for this user"]]_vars

\* A GET was answered with the caller's goal while the other user, who has
\* none, waits for the answer to a GET
C14_Witness ==
    /\ last.op = "getAllGoals"
    /\ last.status = 200
    /\ \E q \in Pending :
          /\ q.req.method = "GET"
          /\ \A g \in goals : g.userId # q.user.id

\* The Goal constraints as the claims give them, for a given enumeration of
\* types: name of 3 to 50 characters, description of at most 200 (both as
\* trimmed), a type of the enumeration, and start date, end date, target
\* value and a non-empty unit present
GoalConstraints(payload, types) ==
    /\ Has(payload, "name")
    /\ Len(Trim(payload.name)) >= 3
    /\ Len(Trim(payload.name)) <= 50
    /\ Has(payload, "description") => Len(Trim(payload.description)) <= 200
    /\ Has(payload, "type")
    /\ payload.type \in types
    /\ {"startDate", "endDate", "targetValue", "unit"} \subseteq DOMAIN payload
    /\ payload.unit # <<>>

\* What POST /goals owes a payload under an enumeration of types
CreateContract(types) ==
    \A q \in Pending :
        (Completes(q) /\ q.req.method = "POST") =>
            IF GoalConstraints(q.req.body, types)
            THEN /\ last'.status = 201
                 /\ goals' = goals \cup {last'.body}
                 /\ last'.body \notin goals
            ELSE /\ last'.status = 400
                 /\ last'.body.message = "Invalid input data"
                 /\ last'.body.errors # {}
                 /\ last'.body.errors \subseteq GoalFields
                 /\ goals' = goals

\* C15 as stated: the types a goal may have are weight-loss, muscle-gain,
\* endurance and other.
C15_Original ==
    [][CreateContract({"weight-loss", "muscle-gain", "endurance", "other"})]_vars

\* C15 (amended): POST /goals answers 201 and persists the goal exactly when
\* the payload satisfies the Goal constraints with the types 'weight loss',
\* 'muscle gain', 'endurance' and 'other'; every other payload is answered
\* 400 with the failing fields and the store is left as it was.
C15_CreateValidates ==
    [][CreateContract({"weight loss", "muscle gain", "endurance", "other"})]_vars

\* A payload of type 'weight loss' was answered 201
C15_Witness ==
    /\ last.op = "createGoal"
    /\ last.status = 201
    /\ last.req.body.type = "weight loss"

CodeGoalTypes == {"weight loss", "muscle gain", "endurance", "other"}

C17_InvalidIs400 ==
    /\ last.op = "signup" =>
          LET body == last.req IN
          (\/ ~Has(body, "username")
           \/ StrLength(Trim(body.username)) < UsernameMinLength
           \/ StrLength(Trim(body.username)) > UsernameMaxLength
           \/ ~Has(body, "email")
           \/ ~EmailRegex(Trim(body.email))
           \/ ~Has(body, "password")
           \/ StrLength(Trim(body.password)) < PasswordMinLength)
              => last.status = 400
    /\ last.op = "login" =>
          LET body == last.req.body IN
          (\/ ~Has(body, "username")
           \/ StrLength(Trim(body.username)) < UsernameMinLength
           \/ ~Has(body, "password")
           \/ StrLength(Trim(body.password)) < PasswordMinLength)
              => last.status = 400

\* C18: a login that passes the shape checks and is not accepted, whether no
\* user has the username or the password does not verify against the user's
\* hash, is answered 401 with the one body { message: 'Invalid credentials' }.
C18_SameRefusal ==
    (last.op = "login" /\ LoginShapeError(last.req.body) = "ok") =>
        LET body == last.req.body
            named == {u \in users : u.username = Trim(body.username)}
        IN
        (\/ named = {}
         \/ \A u \in named : ~BcryptCompare(body.password, u.password))
            => /\ last.status = 401
               /\ last.body = [message |-> "Invalid credentials"]

\* A login with the name of a stored user and a password that does not
\* verify was refused
C18_Witness ==
    /\ last.op = "login"
    /\ last.status = 401
    /\ \E u \in users :
          /\ u.username = Trim(last.req.body.username)
          /\ ~BcryptCompare(last.req.body.password, u.password)

\* The texts of the errors the store driver raises
DriverErrorTexts == {"E11000 duplicate key error", StoreDown}

\* C19 as stated: a 500 response has a generic message and no field that
\* holds the text of a driver error.
C19_SafeInternalError ==
    last.status = 500 =>
        /\ last.body.message \in {"Internal Server Error", "Internal server error"}
        /\ \A f \in DOMAIN last.body : last.body[f] \notin DriverErrorTexts

\* C20 as stated: every error response has a message field and every 400
\* also a per-field error map.
C20_ErrorShape ==
    last.status \in {400, 401, 404, 409, 500} =>
        /\ Has(last.body, "message")
        /\ last.status = 400 => Has(last.body, "errors")

\* The store and the tokens the goal routes are watched from are reached by
\* signups and logins
SeedReached ==
    users = SeedUsers /\ signups = SeedSignups /\ SeedTokens \subseteq issued

HasProgress == \E g \in goals : g.progress # <<>>

\* C21 as stated: the owner can record progress on a goal: while the clients
\* keep sending requests to every route of the API, with bodies that carry
\* progress entries, some stored goal comes to have a non-empty progress
\* sequence.
C21_CanRecordProgress == <>HasProgress

\* C21, what the routes do instead: no request sequence gives a stored goal
\* a progress entry.
C21_ProgressStaysEmpty == ~HasProgress

\* C25: a goal a POST creates is owned by the authenticated user, whatever
\* userId the body carries, and a PUT, whatever its body carries and however
\* it is answered, leaves every stored goal's id, owner, progress entries and
\* creation timestamp as they were and adds and removes no goal.
C25_FrameKept ==
    [][\A q \in Pending :
          Completes(q) =>
             /\ (q.req.method = "POST" /\ last'.status = 201) =>
                   /\ goals' # goals
                   /\ \A g \in goals' \ goals : g.userId = q.user.id
             /\ q.req.method = "PUT" =>
                   /\ Cardinality(goals') = Cardinality(goals)
                   /\ \A g \in goals : \E h \in goals' :
                         /\ h.id = g.id
                         /\ h.userId = g.userId
                         /\ h.progress = g.progress
                         /\ h.createdAt = g.createdAt]_vars

\* A PUT whose body carried another user's id, a document id, progress
\* entries and a creation timestamp was answered 200, later than the goal
\* was created
C25_Witness ==
    /\ last.op = "updateGoal"
    /\ last.status = 200
    /\ last.req.body.userId # last.req.user.id
    /\ last.req.body.progress # <<>>
    /\ \E g \in goals :
          /\ g.id = last.req.goalId
          /\ g.id # last.req.body.id
          /\ g.userId = last.req.user.id
          /\ g.createdAt # last.req.body.createdAt
          /\ g.createdAt < g.updatedAt

\* C22 as stated: when a call of api.get, api.post, api.put or api.delete
\* has settled, resolved or rejected, exactly one HTTP request was issued
\* for it.
C22_OneRequest == api.phase = "settled" => api.requests = 1

\* C23 as stated: the value the onChange handler of an Input receives for a
\* key stroke is the typed value with every '<' replaced by '&lt;' and every
\* '>' by '&gt;'.
C23_Sanitized == last.op = "handleChange" => last.delivered = Sanitize(last.typed)

\* C26: whatever checkAuth, login and logout calls have completed,
\* isAuthenticated is true exactly when user is not null.
C26_AuthenticatedIffUser == auth.isAuthenticated <=> auth.user # NoUser

\* checkAuth found the token a login stored, and a login was turned down
\* after an earlier one had succeeded
C26_Witness ==
    \/ last.op = "checkAuth" /\ auth.isAuthenticated /\ auth.user.id = user123
    \/ last.op = "login" /\ last.threw /\ localStorage = user123

\* C27 as stated: when a logout, or a login that failed, has completed and
\* left the state unauthenticated, localStorage holds no authToken.
C27_NoTokenWhenSignedOut ==
    (last.op \in {"login", "logout"} /\ ~auth.isAuthenticated) => localStorage = Null

\* The form handleSubmit reads passes validateForm
FormValid ==
    /\ Trim(form.username) # <<>>
    /\ Trim(form.password) # <<>>
    /\ Len(form.password) >= PasswordFormMinLength

LoginUntouched == auth' = auth /\ localStorage' = localStorage

\* What C30 says of a call of handleSubmit, with the sign-up clause read for
\* the submits in sign-up mode that obey signUp
SubmitContract(signUp) ==
    last'.op = "handleSubmit" =>
        /\ FormValid => /\ Head(last'.setLoading) = TRUE
                        /\ last'.calledLogin = form.isLogin
                        /\ form.isLogin => form'.loading
        /\ ~FormValid => /\ last'.setLoading = <<>>
                         /\ form'.loading = form.loading
                         /\ ~last'.calledLogin
                         /\ LoginUntouched
        /\ (~form.isLogin /\ signUp) => /\ ~last'.calledLogin
                                        /\ LoginUntouched
                                        /\ form'.isLogin

\* C30 as stated: a submit that passes validation sets loading to true and
\* loading is false again later, whether login resolves or rejects; a submit
\* that fails validation sets no loading and calls no login; and every
\* submit in sign-up mode calls no login and switches the form to login mode.
C30_Original ==
    /\ [][SubmitContract(TRUE)]_vars
    /\ form.loading ~> ~form.loading

\* C30, amended: as stated, with the sign-up clause for the submits that
\* pass validation; a submit in sign-up mode that fails validation leaves
\* the form in sign-up mode.
C30_SubmitLoading ==
    /\ [][SubmitContract(FormValid)]_vars
    /\ [][(last'.op = "handleSubmit" /\ ~FormValid) => form'.isLogin = form.isLogin]_vars
    /\ form.loading ~> ~form.loading

\* A login the form submitted was rejected, its message is shown and loading
\* is false again
C30_Witness ==
    /\ last.op = "handleSubmit finally"
    /\ form.error = LoginFailed
    /\ ~form.loading

\* C24 as stated: for arguments of type number calculateProgress returns a
\* number from 0 to 100, equal to current / target * 100 clamped to that
\* range, and it returns 0 when target is 0 or an argument is not a number.
C24_ClampedPercent ==
    last.op = "calculateProgress" =>
        LET current == last.req.current
            target == last.req.target
            result == last.body
            zero == Finite(0)
            hundred == Finite(100)
        IN
        IF current.type # "number" \/ target.type # "number" \/ target = zero
           \/ current = NaN \/ target = NaN
        THEN result = zero
        ELSE /\ result.is = "finite"
             /\ ~Less(result, zero)
             /\ ~Less(hundred, result)
             /\ LET percent == Percent(current, target) IN
                /\ percent.is # "NaN"
                /\ Less(percent, zero) => result = zero
                /\ Less(hundred, percent) => result = hundred
                /\ (~Less(percent, zero) /\ ~Less(hundred, percent)) =>
                      ~Less(result, percent) /\ ~Less(percent, result)

\* C28 as stated: after the Goals page mounts, with no user action, loading
\* becomes false and from some point on no GET /goals is sent.
C28_FetchesStop ==
    /\ <>(~page.loading)
    /\ <>[][last'.op # "GET /goals"]_vars

\* C29: whenever the modal of the Goals page is closed, editGoalId and
\* deleteGoalId are null and showDeleteConfirmation is false, and Add Goal
\* on a closed modal opens the create form.
C29_ClosedModalIsReset ==
    /\ [](~page.isModalOpen =>
             /\ page.editGoalId = NoGoal
             /\ page.deleteGoalId = NoGoal
             /\ ~page.showDeleteConfirmation)
    /\ [][(last'.op = "handleOpenModal" /\ ~page.isModalOpen) =>
             ModalShows(page') = "create"]_vars

\* A goal was edited and the update closed the modal
C29_Witness ==
    /\ last.op = "handleUpdateGoal"
    /\ "resumed" \in DOMAIN last
    /\ last.status = 200
    /\ ~page.isModalOpen
    /\ page.goals # {}

====
